---- MODULE Spec2Model ----
(***************************************************************************)
(* Reed-Solomon codec over GF(2^8): the field tables and arithmetic of     *)
(* GFmath.py, the polynomial algebra built on them, and the encoder and    *)
(* decoder of main.py.  Python lists are modelled as sequences; a Python   *)
(* index i is the sequence index i + 1.                                    *)
(***************************************************************************)
EXTENDS Integers, Sequences, FiniteSets, TLC

VARIABLES
    pc,          \* position of the driver: "start", "ready", "field", "divided", "encoded", "received", a decode step, "done", "exited", "raised"
    tables,      \* the globals gf_exp and gf_log: "zero" as the module defines them, "built" once create_tables has replaced them
    alive,       \* FALSE once exit(0) has terminated the process
    message,     \* msg_in of encode_message
    nsym,        \* r, the number of parity symbols
    encoded,     \* the list encode_message returned
    err_at,      \* the positions corrupted without being announced (unknown errors)
    msg,         \* the codeword handed to correct_message
    erase_pos,   \* the erasure list handed to correct_message
    channel,     \* TRUE when msg is `encoded` after corruption, FALSE for any other call
    steps,       \* the steps of correct_message executed so far, in order
    msg_copy,    \* correct_message's working copy
    synd,        \* correct_message's syndrome vector
    err_loc,     \* the locator returned by berlekamp_massey
    err_pos,     \* the positions returned by find_error_positions
    msg_corrected, \* what forney_correct_errors returned: [none, val]
    result,      \* how correct_message ended: [kind, err, message, parity]
    fx, fy,      \* operands of the field operations
    fout,        \* their results: [mul, index, boot, div]
    dividend, divisor, divout  \* gf_poly_div's arguments and its result

vars == << pc, tables, alive, message, nsym, encoded, err_at, msg,
           erase_pos, channel, steps, msg_copy, synd, err_loc, err_pos, msg_corrected,
           result, fx, fy, fout, dividend, divisor, divout >>

fieldVars == << fx, fy, fout >>
divVars == << dividend, divisor, divout >>
codecVars == << message, nsym, encoded, err_at, msg, erase_pos, channel >>
inputVars == << codecVars, fieldVars, divVars >>
decodeVars == << steps, msg_copy, synd, err_loc, err_pos, msg_corrected, result >>

----------------------------------------------------------------------------
(* Python's integer and list primitives *)

Max(a, b) == IF a >= b THEN a ELSE b
Min(a, b) == IF a <= b THEN a ELSE b

\* a ^ b on non-negative integers
RECURSIVE BitXor(_, _)
BitXor(a, b) ==
    IF a = 0 THEN b
    ELSE IF b = 0 THEN a
    ELSE ((a + b) % 2) + 2 * BitXor(a \div 2, b \div 2)

\* a << i and a >> i
Shl(a, i) == a * (2 ^ i)
Shr(a, i) == a \div (2 ^ i)

\* a & (1 << i) is non-zero
BitSet(a, i) == (Shr(a, i) % 2) = 1

\* [v] * n
Repeat(v, n) == [i \in 1..Max(n, 0) |-> v]

\* s[i] for a Python index i, negative indices counting from the end
PyAt(s, i) == IF i < 0 THEN s[Len(s) + i + 1] ELSE s[i + 1]

\* the bound of a slice, as Python clamps it
PyBound(i, n) == IF i < 0 THEN Max(i + n, 0) ELSE Min(i, n)

\* s[:stop] and s[start:]
SliceTo(s, stop) == SubSeq(s, 1, PyBound(stop, Len(s)))
SliceFrom(s, start) == SubSeq(s, PyBound(start, Len(s)) + 1, Len(s))

\* s[::-1]
Reverse(s) == [i \in 1..Len(s) |-> s[Len(s) + 1 - i]]

\* max(s) == 0 for a list of field elements
AllZero(s) == \A i \in 1..Len(s) : s[i] = 0

----------------------------------------------------------------------------
(* GFmath.py: the table-free multiplier *)

PRIM == 285

RECURSIVE bit_mult_loop(_, _, _, _)
bit_mult_loop(a, b, i, res) ==
    IF Shr(b, i) > 0
    THEN bit_mult_loop(a, b, i + 1, IF BitSet(b, i) THEN BitXor(res, Shl(a, i)) ELSE res)
    ELSE res

bit_mult(a, b) == bit_mult_loop(a, b, 0, 0)

RECURSIVE bit_length_loop(_, _)
bit_length_loop(n, bits) ==
    IF Shr(n, bits) # 0 THEN bit_length_loop(n, bits + 1) ELSE bits

bit_length(n) == bit_length_loop(n, 0)

RECURSIVE bit_div_loop(_, _, _, _)
bit_div_loop(dvd, dvs, len_divisor, i) ==
    IF i < 0 THEN dvd
    ELSE bit_div_loop(IF BitSet(dvd, i + len_divisor - 1) THEN BitXor(dvd, Shl(dvs, i)) ELSE dvd,
                      dvs, len_divisor, i - 1)

bit_div(dvd, dvs) ==
    LET len_dividend == bit_length(dvd)
        len_divisor == bit_length(dvs)
    IN IF len_dividend < len_divisor THEN dvd
       ELSE bit_div_loop(dvd, dvs, len_divisor, len_dividend - len_divisor)

gf_mult_no_table(x, y, prim) ==
    LET product == bit_mult(x, y)
    IN IF prim > 0 THEN bit_div(product, prim) ELSE product

----------------------------------------------------------------------------
(* GFmath.py: the tables *)

EXP_SIZE == 512
LOG_SIZE == 256
FIELD_ORDER == 255

\* the iterations lo .. hi - 1 of "for i in range(255)" entered with x: the powers
\* they write to gf_exp[lo .. hi - 1] and x after the last of them.  The range is
\* split in halves, which bounds the depth of the evaluation.
RECURSIVE fill_range(_, _, _, _)
fill_range(lo, hi, x, prim) ==
    IF hi <= lo THEN [exp |-> <<>>, x |-> x]
    ELSE IF hi = lo + 1 THEN [exp |-> <<x>>, x |-> gf_mult_no_table(x, 2, prim)]
    ELSE LET mid == (lo + hi) \div 2
             left == fill_range(lo, mid, x, prim)
             right == fill_range(mid, hi, left.x, prim)
         IN [exp |-> left.exp \o right.exp, x |-> right.x]

\* the second loop of create_tables over the gf_exp[0 .. 254] the first left: it
\* copies gf_exp[i - 255] to gf_exp[i] for i = 255 .. 511 in ascending order, so
\* that entries 510 and 511 copy entries 255 and 256 written just before
second_loop(powers) ==
    [i \in 1..EXP_SIZE |->
        powers[IF i - 1 < FIELD_ORDER THEN i
               ELSE IF i - 1 - FIELD_ORDER < FIELD_ORDER THEN i - FIELD_ORDER
               ELSE i - 2 * FIELD_ORDER]]

\* gf_log after the first loop: gf_log[x] = i is the last assignment made for x,
\* and an entry never assigned keeps its 0
log_assignments(powers) ==
    [v \in 1..LOG_SIZE |->
        LET hits == {i \in 1..FIELD_ORDER : powers[i] = v - 1}
        IN IF hits = {} THEN 0 ELSE (CHOOSE i \in hits : \A j \in hits : j <= i) - 1]

\* create_tables: gf_exp and gf_log as it leaves them
create_tables(prim) ==
    LET filled == fill_range(0, FIELD_ORDER, 1, prim)
    IN [exp |-> second_loop(filled.exp), log |-> log_assignments(filled.exp)]

\* gf_exp = [0] * 512 and gf_log = [0] * 256, the globals before create_tables()
ZeroTables == [exp |-> Repeat(0, EXP_SIZE), log |-> Repeat(0, LOG_SIZE)]

\* the globals after create_tables()
BuiltTables == create_tables(PRIM)

\* the globals as the program finds them
Tables == IF tables = "built" THEN BuiltTables ELSE ZeroTables
gf_exp == Tables.exp
gf_log == Tables.log

----------------------------------------------------------------------------
(* GFmath.py: field arithmetic on the tables *)

\* the index gf_mul reads gf_exp at
gf_mul_index(x, y) == gf_log[x + 1] + gf_log[y + 1]

\* gf_mul without its test for a zero operand
gf_mul_no_zero_test(x, y) == gf_exp[gf_mul_index(x, y) + 1]

gf_mul(x, y) ==
    IF x = 0 \/ y = 0 THEN 0
    ELSE gf_exp[gf_mul_index(x, y) + 1]

\* gf_div reducing the exponent modulo 256
gf_div_mod_256(x, y) ==
    IF x = 0 THEN 0
    ELSE gf_exp[((gf_log[x + 1] + 255 - gf_log[y + 1]) % 256) + 1]

\* gf_div for y # 0; y = 0 raises ZeroDivisionError
gf_div(x, y) ==
    IF x = 0 THEN 0
    ELSE gf_exp[((gf_log[x + 1] + 255 - gf_log[y + 1]) % 255) + 1]

gf_pow(x, power) == gf_exp[((gf_log[x + 1] * power) % 255) + 1]

gf_inverse(x) == gf_div(1, x)

gf_add(x, y) == BitXor(x, y)

----------------------------------------------------------------------------
(* GFmath.py: polynomial algebra *)

gf_poly_num_mul(poly, x) == [i \in 1..Len(poly) |-> gf_mul(poly[i], x)]

gf_poly_add(p, q) ==
    LET max_len == Max(Len(p), Len(q))
    IN [i \in 1..max_len |->
          BitXor(IF i > max_len - Len(p) THEN p[i - (max_len - Len(p))] ELSE 0,
                 IF i > max_len - Len(q) THEN q[i - (max_len - Len(q))] ELSE 0)]

\* the XOR of gf_mul(p[i], q[j]) over the pairs with i + j = k, i from i0 on
RECURSIVE conv_at(_, _, _, _)
conv_at(p, q, k, i) ==
    IF i >= Len(p) THEN 0
    ELSE BitXor(IF k - i >= 0 /\ k - i < Len(q) THEN gf_mul(p[i + 1], q[k - i + 1]) ELSE 0,
                conv_at(p, q, k, i + 1))

gf_poly_mul(p, q) == [k \in 1..(Len(p) + Len(q) - 1) |-> conv_at(p, q, k - 1, 0)]

\* Horner's loop of gf_poly_point_eval, from index i with accumulator y
RECURSIVE point_eval_loop(_, _, _, _)
point_eval_loop(poly, x, i, y) ==
    IF i >= Len(poly) THEN y
    ELSE point_eval_loop(poly, x, i + 1, BitXor(gf_mul(y, x), poly[i + 1]))

\* gf_poly_point_eval for a non-empty poly; poly[0] of an empty one raises IndexError
gf_poly_point_eval(poly, x) == point_eval_loop(poly, x, 1, poly[1])

\* the outer loop of gf_poly_div: for i in range(len(dividend) - len(divisor) + 1)
RECURSIVE poly_div_loop(_, _, _, _)
poly_div_loop(msg_out, dvs, i, stop) ==
    IF i >= stop THEN msg_out
    ELSE LET coef == msg_out[i + 1]
         IN poly_div_loop(
               IF coef # 0
               THEN [idx \in 1..Len(msg_out) |->
                       LET j == (idx - 1) - i
                       IN IF j >= 1 /\ j < Len(dvs) /\ dvs[j + 1] # 0
                          THEN BitXor(msg_out[idx], gf_mul(dvs[j + 1], coef))
                          ELSE msg_out[idx]]
               ELSE msg_out,
               dvs, i + 1, stop)

gf_poly_div(dvd, dvs) ==
    LET msg_out == poly_div_loop(dvd, dvs, 0, Len(dvd) - Len(dvs) + 1)
        separator == -(Len(dvs) - 1)
    IN [quotient |-> SliceTo(msg_out, separator), remainder |-> SliceFrom(msg_out, separator)]

----------------------------------------------------------------------------
(* main.py: the encoder *)

RECURSIVE generator_loop(_, _, _)
generator_loop(g, i, r) ==
    IF i >= r THEN g
    ELSE generator_loop(gf_poly_mul(g, <<1, gf_pow(2, i)>>), i + 1, r)

generate_generator_poly(r) == generator_loop(<<1>>, 0, r)

encode_message(msg_in, r) ==
    LET gen == generate_generator_poly(r)
        remainder == gf_poly_div(msg_in \o Repeat(0, Len(gen) - 1), gen).remainder
    IN msg_in \o remainder

----------------------------------------------------------------------------
(* main.py: syndromes *)

\* calculate_syndromes for a non-empty msg or r = 0; an empty msg with r > 0 raises IndexError
calculate_syndromes(m, r) ==
    <<0>> \o [i \in 1..r |-> gf_poly_point_eval(m, gf_pow(2, i - 1))]

\* the outer loop of calculate_forney_syndromes, over the reversed erasure indices
RECURSIVE forney_synd_loop(_, _, _)
forney_synd_loop(forney_synd, rev_pos, i) ==
    IF i >= Len(rev_pos) THEN forney_synd
    ELSE LET x == gf_pow(2, rev_pos[i + 1])
         IN forney_synd_loop(
               [j \in 1..Len(forney_synd) |->
                  IF j < Len(forney_synd)
                  THEN BitXor(gf_mul(forney_synd[j], x), forney_synd[j + 1])
                  ELSE forney_synd[j]],
               rev_pos, i + 1)

calculate_forney_syndromes(syndromes, erasures, n) ==
    LET rev_pos == [i \in 1..Len(erasures) |-> n - 1 - erasures[i]]
    IN forney_synd_loop(SliceFrom(syndromes, 1), rev_pos, 0)

----------------------------------------------------------------------------
(* main.py: Berlekamp-Massey *)

\* the discrepancy loop: for j in range(1, len(err_loc))
RECURSIVE bm_delta(_, _, _, _, _)
bm_delta(sy, loc, K, j, delta) ==
    IF j >= Len(loc) THEN delta
    ELSE bm_delta(sy, loc, K, j + 1,
                  BitXor(delta, gf_mul(PyAt(loc, -(j + 1)), PyAt(sy, K - j))))

\* the main loop: for i in range(r - erase_count); erase_loc <<>> stands for None
RECURSIVE bm_loop(_, _, _, _, _, _, _)
bm_loop(sy, r, erase_loc, erase_count, i, loc, old) ==
    IF i >= r - erase_count THEN loc
    ELSE LET K == i + (Len(sy) - r) + (IF erase_loc # <<>> THEN erase_count ELSE 0)
             delta == bm_delta(sy, loc, K, 1, PyAt(sy, K))
             old_app == Append(old, 0)
             swap == delta # 0 /\ Len(old_app) > Len(loc)
             old_next == IF swap THEN gf_poly_num_mul(loc, gf_inverse(delta)) ELSE old_app
             loc_mid == IF swap THEN gf_poly_num_mul(old_app, delta) ELSE loc
             loc_next == IF delta # 0
                         THEN gf_poly_add(loc_mid, gf_poly_num_mul(old_next, delta))
                         ELSE loc
         IN bm_loop(sy, r, erase_loc, erase_count, i + 1, loc_next, old_next)

\* while err_loc and err_loc[0] == 0: del err_loc[0]
RECURSIVE strip_leading_zeros(_)
strip_leading_zeros(p) ==
    IF p # <<>> /\ p[1] = 0 THEN strip_leading_zeros(Tail(p)) ELSE p

\* berlekamp_massey: [exit |-> the capacity check ended the process, val |-> err_loc]
berlekamp_massey(sy, r, erase_loc, erase_count) ==
    LET seed == IF erase_loc # <<>> THEN erase_loc ELSE <<1>>
        loc == strip_leading_zeros(bm_loop(sy, r, erase_loc, erase_count, 0, seed, seed))
        errs == Len(loc) - 1
    IN [exit |-> (errs - erase_count) * 2 + erase_count > r, val |-> loc]

----------------------------------------------------------------------------
(* main.py: error positions *)

\* the list comprehension of find_error_positions, from i on
RECURSIVE root_positions(_, _, _)
root_positions(loc, n, i) ==
    IF i >= n THEN <<>>
    ELSE (IF gf_poly_point_eval(loc, gf_pow(2, i)) = 0 THEN <<n - 1 - i>> ELSE <<>>)
         \o root_positions(loc, n, i + 1)

\* find_error_positions: [exit |-> the count check ended the process, val |-> positions]
find_error_positions(loc, n) ==
    LET err_count == Len(loc) - 1
        positions == root_positions(loc, n, 0)
    IN [exit |-> Len(positions) # err_count, val |-> positions]

----------------------------------------------------------------------------
(* main.py: Forney *)

RECURSIVE erasure_locator_loop(_, _, _)
erasure_locator_loop(loc, positions, i) ==
    IF i >= Len(positions) THEN loc
    ELSE erasure_locator_loop(
            gf_poly_mul(loc, gf_poly_add(<<1>>, <<gf_pow(2, positions[i + 1]), 0>>)),
            positions, i + 1)

compute_erasure_locator_poly(erase_positions) ==
    erasure_locator_loop(<<1>>, erase_positions, 0)

compute_error_evaluator(sy, loc, r) ==
    gf_poly_div(gf_poly_mul(sy, loc), <<1>> \o Repeat(0, r + 1)).remainder

\* the derivative loop: for j in range(len(X)), j != i
RECURSIVE locator_derivative(_, _, _, _, _)
locator_derivative(X, i, Xi_inv, j, acc) ==
    IF j >= Len(X) THEN acc
    ELSE locator_derivative(X, i, Xi_inv, j + 1,
            IF j # i THEN gf_mul(acc, gf_add(1, gf_mul(Xi_inv, X[j + 1]))) ELSE acc)

\* the magnitude loop: for i, Xi in enumerate(X); none is the early "return None"
RECURSIVE forney_loop(_, _, _, _, _)
forney_loop(X, err_eval, error_positions, i, E) ==
    IF i >= Len(X) THEN [none |-> FALSE, val |-> E]
    ELSE LET Xi == X[i + 1]
             Xi_inv == gf_inverse(Xi)
             err_loc_derivative == locator_derivative(X, i, Xi_inv, 0, 1)
             y == gf_mul(Xi, gf_poly_point_eval(Reverse(err_eval), Xi_inv))
         IN IF err_loc_derivative = 0 THEN [none |-> TRUE, val |-> <<>>]
            ELSE forney_loop(X, err_eval, error_positions, i + 1,
                    [E EXCEPT ![error_positions[i + 1] + 1] = gf_div(y, err_loc_derivative)])

\* forney_correct_errors: [none |-> it returned None, val |-> the corrected word]
forney_correct_errors(m, sy, error_positions) ==
    LET n == Len(m)
        coef_pos == [i \in 1..Len(error_positions) |-> n - 1 - error_positions[i]]
        loc == compute_erasure_locator_poly(coef_pos)
        err_eval == Reverse(compute_error_evaluator(Reverse(sy), loc, Len(loc) - 1))
        X == [i \in 1..Len(coef_pos) |-> gf_pow(2, -(255 - coef_pos[i]))]
        E == forney_loop(X, err_eval, error_positions, 0, Repeat(0, n))
    IN IF E.none THEN E ELSE [none |-> FALSE, val |-> gf_poly_add(m, E.val)]

----------------------------------------------------------------------------
(* main.py: the two syndrome tests of correct_message *)

\* max(synd) == 0 read as a test of the alignment entry alone
no_errors_head(sy) == sy[1] = 0

\* max(synd) == 0
no_errors(sy) == AllZero(sy)

\* max(synd) > 0 read as a test of the alignment entry alone
still_wrong_head(sy) == sy[1] > 0

\* max(synd) > 0
still_wrong(sy) == ~AllZero(sy)

----------------------------------------------------------------------------
(* Bounds of the model *)

MaxK == 1        \* longest message encoded
MaxR == 4        \* most parity symbols
MaxT == 2        \* most unannounced errors put into a codeword
MaxE == 4        \* most erasures announced for a corrupted codeword
MaxDividend == 3 \* longest dividend of a polynomial division
MaxDivisor == 3  \* longest divisor of a polynomial division
RawLen == 2      \* longest short word handed to correct_message directly
RawE == 2        \* longest erasure list handed to correct_message directly
MAX_LEN == 255

Symbols == {0, 1, 255}
ErrVals == {1, 2}
RawSymbols == {0, 1}
DivSymbols == {0, 1, 2}

SeqsUpTo(S, n) == UNION {[1..k -> S] : k \in 0..n}

\* the elements of a set of integers in ascending order
RECURSIVE Ascending(_)
Ascending(S) ==
    IF S = {} THEN <<>>
    ELSE LET m == CHOOSE x \in S : \A y \in S : x <= y
         IN <<m>> \o Ascending(S \ {m})

NoResult == [kind |-> "none", err |-> "", message |-> <<>>, parity |-> <<>>]
Returned(m, p) == [kind |-> "return", err |-> "", message |-> m, parity |-> p]
Exited(text) == [kind |-> "exit", err |-> text, message |-> <<>>, parity |-> <<>>]
Raised(exc) == [kind |-> "raise", err |-> exc, message |-> <<>>, parity |-> <<>>]
NoWord == [none |-> FALSE, val |-> <<>>]

----------------------------------------------------------------------------
(* The state machine *)

Init ==
    /\ pc = "start"
    /\ tables = "zero"
    /\ alive = TRUE
    /\ message = <<>> /\ nsym = 0 /\ encoded = <<>> /\ err_at = {}
    /\ msg = <<>> /\ erase_pos = <<>> /\ channel = FALSE
    /\ steps = <<>> /\ msg_copy = <<>> /\ synd = <<>> /\ err_loc = <<>> /\ err_pos = <<>>
    /\ msg_corrected = NoWord /\ result = NoResult
    /\ fx = 0 /\ fy = 0 /\ fout = [mul |-> 0, index |-> 0, boot |-> 0, div |-> 0]
    /\ dividend = <<>> /\ divisor = <<>> /\ divout = [quotient |-> <<>>, remainder |-> <<>>]

\* create_tables()
CreateTables ==
    /\ pc = "start"
    /\ tables' = "built"
    /\ pc' = "ready"
    /\ UNCHANGED << alive, inputVars, decodeVars >>

\* encoded = encode_message(message, r)
Encode ==
    /\ pc = "ready"
    /\ \E m \in SeqsUpTo(Symbols, MaxK), r \in 0..MaxR :
          /\ message' = m
          /\ nsym' = r
          /\ encoded' = encode_message(m, r)
    /\ pc' = "encoded"
    /\ UNCHANGED << tables, alive, err_at, msg, erase_pos, channel, decodeVars, fieldVars, divVars >>

\* the codeword is corrupted at the positions T and the erasures E are announced
Transmit ==
    /\ pc = "encoded"
    /\ \E T \in SUBSET (0..Len(encoded) - 1) :
          /\ Cardinality(T) <= MaxT
          /\ \E v \in [T -> ErrVals], E \in SUBSET ((0..Len(encoded) - 1) \ T) :
                /\ Cardinality(E) <= MaxE
                /\ msg' = [i \in 1..Len(encoded) |->
                             IF i - 1 \in T THEN BitXor(encoded[i], v[i - 1]) ELSE encoded[i]]
                /\ err_at' = T
                /\ erase_pos' = Ascending(E)
    /\ channel' = TRUE
    /\ pc' = "received"
    /\ UNCHANGED << tables, alive, message, nsym, encoded, decodeVars, fieldVars, divVars >>

\* correct_message is called with arguments that come from no codeword
Call ==
    /\ pc = "ready"
    /\ \E w \in SeqsUpTo(RawSymbols, RawLen) \cup {Repeat(0, MAX_LEN + 1)},
          r \in 0..RawLen,
          E \in SeqsUpTo(0..RawLen, RawE) :
          /\ msg' = w
          /\ nsym' = r
          /\ erase_pos' = E
    /\ channel' = FALSE
    /\ pc' = "received"
    /\ UNCHANGED << tables, alive, message, encoded, err_at, decodeVars, fieldVars, divVars >>

\* gf_mul(x, y), gf_mult_no_table(x, y) and gf_div(gf_mul(x, y), y) on two bytes;
\* div is -1 where gf_div raises ZeroDivisionError
FieldOp ==
    /\ pc = "ready"
    /\ \E x \in 0..FIELD_ORDER, y \in 0..FIELD_ORDER :
          /\ fx' = x
          /\ fy' = y
          /\ fout' = [mul |-> gf_mul(x, y),
                      index |-> gf_mul_index(x, y),
                      boot |-> gf_mult_no_table(x, y, PRIM),
                      div |-> IF y = 0 THEN -1 ELSE gf_div(gf_mul(x, y), y)]
    /\ pc' = "field"
    /\ UNCHANGED << tables, alive, codecVars, divVars, decodeVars >>

\* gf_poly_div(dividend, divisor) with a divisor whose leading coefficient is 1 and
\* a dividend of at least len(divisor) - 1 symbols, as the encoder and the error
\* evaluator call it
PolyDiv ==
    /\ pc = "ready"
    /\ \E p \in SeqsUpTo(DivSymbols, MaxDividend), q \in SeqsUpTo(DivSymbols, MaxDivisor - 1) :
          /\ Len(p) >= Len(q)
          /\ dividend' = p
          /\ divisor' = <<1>> \o q
          /\ divout' = gf_poly_div(p, <<1>> \o q)
    /\ pc' = "divided"
    /\ UNCHANGED << tables, alive, codecVars, fieldVars, decodeVars >>

\* how a step of correct_message ends the call
Finish(res) ==
    /\ result' = res
    /\ pc' = CASE res.kind = "return" -> "done"
               [] res.kind = "exit" -> "exited"
               [] OTHER -> "raised"
    /\ alive' = (res.kind # "exit")

\* lines 112-114
D_Validate ==
    /\ pc = "received"
    /\ steps' = Append(steps, "validate")
    /\ IF Len(msg) > MAX_LEN
       THEN Finish(Exited("Message too long"))
       ELSE pc' = "apply" /\ UNCHANGED << result, alive >>
    /\ UNCHANGED << tables, inputVars, msg_copy, synd, err_loc, err_pos, msg_corrected >>

\* lines 116-120
D_ApplyErasures ==
    /\ pc = "apply"
    /\ steps' = Append(steps, "apply")
    /\ LET n == Len(msg)
           bad == \E i \in 1..Len(erase_pos) : erase_pos[i] >= n \/ erase_pos[i] < -n
           at(e) == IF e < 0 THEN e + n ELSE e
       IN IF bad
          THEN Finish(Raised("IndexError")) /\ UNCHANGED msg_copy
          ELSE /\ msg_copy' = [i \in 1..n |->
                                 IF \E j \in 1..Len(erase_pos) : at(erase_pos[j]) = i - 1
                                 THEN 0 ELSE msg[i]]
               /\ pc' = "check"
               /\ UNCHANGED << result, alive >>
    /\ UNCHANGED << tables, inputVars, synd, err_loc, err_pos, msg_corrected >>

\* lines 122-124
D_CheckErasures ==
    /\ pc = "check"
    /\ steps' = Append(steps, "check")
    /\ IF Len(erase_pos) > nsym
       THEN Finish(Exited("Too many erasures"))
       ELSE pc' = "syndromes" /\ UNCHANGED << result, alive >>
    /\ UNCHANGED << tables, inputVars, msg_copy, synd, err_loc, err_pos, msg_corrected >>

\* lines 126-128
D_Syndromes ==
    /\ pc = "syndromes"
    /\ steps' = Append(steps, "syndromes")
    /\ IF msg_copy = <<>> /\ nsym > 0
       THEN Finish(Raised("IndexError")) /\ UNCHANGED synd
       ELSE /\ synd' = calculate_syndromes(msg_copy, nsym)
            /\ IF no_errors(synd')
               THEN Finish(Returned(SliceTo(msg_copy, -nsym), SliceFrom(msg_copy, -nsym)))
               ELSE pc' = "locate" /\ UNCHANGED << result, alive >>
    /\ UNCHANGED << tables, inputVars, msg_copy, err_loc, err_pos, msg_corrected >>

\* lines 130-131
D_Locate ==
    /\ pc = "locate"
    /\ steps' = Append(steps, "locate")
    /\ LET forney_synd == calculate_forney_syndromes(synd, erase_pos, Len(msg_copy))
           bm == berlekamp_massey(forney_synd, nsym, <<>>, Len(erase_pos))
       IN IF bm.exit
          THEN Finish(Exited("Too many errors to correct")) /\ UNCHANGED err_loc
          ELSE err_loc' = bm.val /\ pc' = "find" /\ UNCHANGED << result, alive >>
    /\ UNCHANGED << tables, inputVars, msg_copy, synd, err_pos, msg_corrected >>

\* lines 132-136
D_FindPositions ==
    /\ pc = "find"
    /\ steps' = Append(steps, "find")
    /\ LET fp == find_error_positions(Reverse(err_loc), Len(msg_copy))
       IN IF fp.exit
          THEN Finish(Exited("Mismatch in error count")) /\ UNCHANGED err_pos
          ELSE err_pos' = fp.val /\ pc' = "forney" /\ UNCHANGED << result, alive >>
    /\ UNCHANGED << tables, inputVars, msg_copy, synd, err_loc, msg_corrected >>

\* line 138
D_Forney ==
    /\ pc = "forney"
    /\ steps' = Append(steps, "forney")
    /\ msg_corrected' = forney_correct_errors(msg_copy, synd, erase_pos \o err_pos)
    /\ pc' = "verify"
    /\ UNCHANGED << tables, inputVars, alive, msg_copy, synd, err_loc, err_pos, result >>

\* lines 140-145; calculate_syndromes(None, r) raises TypeError
D_Verify ==
    /\ pc = "verify"
    /\ steps' = Append(steps, "verify")
    /\ IF msg_corrected.none
       THEN Finish(Raised("TypeError")) /\ UNCHANGED synd
       ELSE /\ synd' = calculate_syndromes(msg_corrected.val, nsym)
            /\ IF still_wrong(synd')
               THEN Finish(Exited("Correction failed"))
               ELSE Finish(Returned(SliceTo(msg_corrected.val, -nsym),
                                    SliceFrom(msg_corrected.val, -nsym)))
    /\ UNCHANGED << tables, inputVars, msg_copy, err_loc, err_pos, msg_corrected >>

Next ==
    \/ CreateTables
    \/ Encode
    \/ Transmit
    \/ Call
    \/ FieldOp
    \/ PolyDiv
    \/ D_Validate
    \/ D_ApplyErasures
    \/ D_CheckErasures
    \/ D_Syndromes
    \/ D_Locate
    \/ D_FindPositions
    \/ D_Forney
    \/ D_Verify

Spec == Init /\ [][Next]_vars

----------------------------------------------------------------------------
(* Vocabulary of the properties *)

\* correct_message has ended
Ended == pc \in {"done", "exited", "raised"}

\* the numbers t of unannounced errors and e of erasures of a corrupted codeword
t_errors == Cardinality(err_at)
e_erasures == Len(erase_pos)

\* what encode_message appended to the message
Appended == SubSeq(encoded, Len(message) + 1, Len(encoded))

\* the word correct_message returned
ReturnedWord == result.message \o result.parity

\* the number of positions at which two words of one length differ
Distance(u, v) == Cardinality({i \in 1..Len(u) : u[i] # v[i]})

\* w evaluates to zero at the r generator roots 2^0 .. 2^(r-1)
ZeroAtRoots(w, r) == \A i \in 0..(r - 1) : gf_poly_point_eval(w, gf_pow(2, i)) = 0

FailureTexts == {"Message too long", "Too many erasures", "Too many errors to correct",
                 "Mismatch in error count", "Correction failed"}

----------------------------------------------------------------------------
(* Properties *)

\* C1: a codeword corrupted at t unannounced positions, with e further positions
\* announced as erasures and 2t + e <= r, decodes to the original message and the
\* original r parity symbols.
C1_RecoversWithinCapacity ==
    (Ended /\ channel /\ 2 * t_errors + e_erasures <= nsym) =>
        /\ result.kind = "return"
        /\ result.message = message
        /\ result.parity = Appended
        /\ Len(result.parity) = nsym

\* The statement of C1 for r >= 1.
RecoversWithinCapacityWithParity ==
    (Ended /\ channel /\ nsym >= 1 /\ 2 * t_errors + e_erasures <= nsym) =>
        /\ result.kind = "return"
        /\ result.message = message
        /\ result.parity = Appended
        /\ Len(result.parity) = nsym

\* C2: decoding an uncorrupted codeword with no erasures returns the input message
\* and the parity encode appended, r = 0 and k = 0 included, and applies no correction.
C2_RoundTrip ==
    (Ended /\ channel /\ err_at = {} /\ erase_pos = <<>>) =>
        /\ result.kind = "return"
        /\ result.message = message
        /\ result.parity = Appended
        /\ \A i \in 1..Len(steps) : steps[i] # "forney"

\* C3 as stated: a codeword corrupted with t unannounced errors and e <= r erasures
\* such that 2t + e > r always fails with Uncorrectable, so that no result differing
\* from the original is ever returned.
C3_AlwaysUncorrectable ==
    (Ended /\ channel /\ e_erasures <= nsym /\ 2 * t_errors + e_erasures > nsym) =>
        /\ result.kind = "exit"
        /\ result.err = "Too many errors to correct"

\* C3 amended: when a codeword corrupted with 2t + e > r is decoded and a result is
\* returned, the returned word is the original codeword or differs from it in at
\* least r + 1 positions.
C3_ReturnsFarOrOriginal ==
    (Ended /\ channel /\ 2 * t_errors + e_erasures > nsym /\ result.kind = "return") =>
        \/ ReturnedWord = encoded
        \/ Distance(ReturnedWord, encoded) >= nsym + 1

C3_Witness ==
    /\ Ended /\ channel /\ 2 * t_errors + e_erasures > nsym
    /\ result.kind = "return"
    /\ ReturnedWord # encoded
    /\ nsym >= 1

\* C4: encode returns k + r symbols of which the first k are the message.
C4_Systematic ==
    pc = "encoded" =>
        /\ Len(encoded) = Len(message) + nsym
        /\ SubSeq(encoded, 1, Len(message)) = message

\* C5: a codeword longer than 255 symbols is rejected as too long and an erasure list
\* longer than r as too many erasures, both before an erasure is applied or a syndrome
\* computed, and every failure reaches the caller as one of the five failure values
\* with the process still running.
C5_FailuresReachCaller ==
    Ended =>
        /\ Len(msg) > MAX_LEN =>
              /\ result.err = "Message too long"
              /\ steps = <<"validate">>
        /\ (Len(msg) <= MAX_LEN /\ Len(erase_pos) > nsym) =>
              /\ result.err = "Too many erasures"
              /\ \A i \in 1..Len(steps) : steps[i] \notin {"apply", "syndromes"}
        /\ result.kind # "return" =>
              /\ result.err \in FailureTexts
              /\ alive

\* C6: once the tables are built, gf_mul is commutative and associative on 1..255
\* and gf_div undoes gf_mul: divide(multiply(x, y), y) = x.
C6_FieldLaws ==
    (pc = "field" /\ fx # 0 /\ fy # 0) =>
        /\ fout.mul = gf_mul(fy, fx)
        /\ fout.div = fx
        /\ \A z \in 1..FIELD_ORDER : gf_mul(fout.mul, z) = gf_mul(fx, gf_mul(fy, z))

C6_Witness ==
    /\ pc = "field" /\ fx = 255 /\ fy = 254
    /\ fout.mul \notin {0, 1, fx, fy}
    /\ fout.div = fx

\* C7: a returned message ++ parity evaluates to zero at the r generator roots, and
\* a word the Forney step produced whose syndromes are not all zero is not returned:
\* the call ends with "Correction failed".
C7_ReturnsOnlyCodewords ==
    /\ (pc = "done" /\ result.kind = "return") => ZeroAtRoots(ReturnedWord, nsym)
    /\ (Ended /\ steps # <<>> /\ steps[Len(steps)] = "verify" /\ ~msg_corrected.none
          /\ ~ZeroAtRoots(msg_corrected.val, nsym)) =>
             /\ result.kind = "exit"
             /\ result.err = "Correction failed"

C7_Witness ==
    /\ pc = "done" /\ result.kind = "return"
    /\ steps[Len(steps)] = "verify"
    /\ nsym = 4 /\ t_errors = 2
    /\ ReturnedWord # msg_copy
    /\ ZeroAtRoots(ReturnedWord, nsym)

\* C8: when the derivative term of a position is 0 the corrector fails and the call
\* ends as Uncorrectable, without an exception and without the verification step
\* running on the failed result.
C8_DegenerateIsUncorrectable ==
    (Ended /\ msg_corrected.none) =>
        /\ result.kind = "exit"
        /\ result.err = "Too many errors to correct"
        /\ \A i \in 1..Len(steps) : steps[i] # "verify"

\* C9: polynomial division by a divisor with leading coefficient 1 returns a
\* remainder of len(divisor) - 1 symbols and a quotient of the rest, a divisor of
\* length 1 included.
C9_DivisionLengths ==
    pc = "divided" =>
        /\ Len(divout.remainder) = Len(divisor) - 1
        /\ Len(divout.quotient) + Len(divout.remainder) = Len(dividend)

\* The statement of C9 for divisors of two or more symbols.
DivisionLengthsLongDivisor ==
    (pc = "divided" /\ Len(divisor) >= 2) =>
        /\ Len(divout.remainder) = Len(divisor) - 1
        /\ Len(divout.quotient) + Len(divout.remainder) = Len(dividend)

\* C10: once the tables are built, gf_mul agrees with gf_mult_no_table on every pair
\* of bytes 0..255, and the index log[x] + log[y] it reads lies in the part of the
\* exponent table create_tables filled.
C10_TableMatchesBootstrap ==
    pc = "field" =>
        /\ fout.mul = fout.boot
        /\ (fx # 0 /\ fy # 0) =>
              /\ fout.index < EXP_SIZE
              /\ gf_exp[fout.index + 1] # 0

C10_Witness ==
    /\ pc = "field"
    /\ fout.index = 2 * (FIELD_ORDER - 1)
    /\ fout.mul = fout.boot
    /\ fout.mul # 0

====
